---- MODULE Spec2Model ----
(***************************************************************************)
(* State-machine model of src/creator_economy_NOTION.py                    *)
(* (class CreatorEconomyNotionAutomation).                                 *)
(*                                                                         *)
(* The program is sequential; pc is the position of its single thread.     *)
(* Every remote call (transcription service, document store, audio         *)
(* download, local file removal) is one step whose outcome (success or a   *)
(* raised exception, and the value returned) is chosen by the environment. *)
(*                                                                         *)
(* Texts are not modelled character by character.  A generated text is a   *)
(* record [len, att]: its length in units and the attempt whose generation *)
(* request produced it.  A slice of the transcript is the interval         *)
(* <<lo, hi>> of the 0-based unit positions lo .. hi-1 it holds, so that   *)
(* gaps, overlaps and reorderings of slices are visible.                   *)
(***************************************************************************)
EXTENDS Integers, Sequences, FiniteSets, TLC

\* ------------------------------------------------------------------------
\* Program constants
\* ------------------------------------------------------------------------
max_retries == 5
PollTimeout == 600
PollSleep == 5
BackoffBase == 60
SummaryLimit == 2000
SummaryKeep == 1997
MarkerLen == 3
ChunkSize == 2000
FirstSegments == 98
BatchSize == 100

\* ------------------------------------------------------------------------
\* Sets the environment draws its answers from
\* ------------------------------------------------------------------------
\* lengths of the summary text the model service may return (after strip)
SummaryLens == {2500}
\* lengths of the transcript text the model service may return
TranscriptLens == {4001, 196001}
\* states a remote file may be reported in
FileStates == {"PROCESSING", "ACTIVE", "FAILED"}
\* a service that never finishes processing a file
NeverDone == 1000
\* a service that finishes processing every file within this time
QuickDone == 10

VARIABLES
    pc,            \* position of the program
    attempt,       \* transcribe_with_retry: loop variable
    gemini_file,   \* transcribe_with_retry: handle of this attempt, or NoFile
    waited,        \* time slept since start_time in the polling loop
    summary,       \* transcribe_with_retry: local summary
    transcript,    \* transcribe_with_retry: local transcript
    tret,          \* value returned by transcribe_with_retry
    files,         \* names of the handles of this invocation stored remotely
    uploads,       \* history: upload_file calls issued by this invocation
    delfailed,     \* history: handles whose delete_file call raised
    sleeps,        \* history: backoff sleeps of this invocation, in order
    processing_time, \* environment: the service reports no file PROCESSING
                   \* once it was polled for this long (NeverDone: no limit)
    n_title,       \* add_to_notion: argument title
    n_summary,     \* add_to_notion: argument summary, its length
    n_transcript,  \* add_to_notion: argument transcript, its length
    chunks,        \* add_to_notion: local chunks
    page_id,       \* add_to_notion: local page_id (0: none yet)
    batch_i,       \* add_to_notion: loop variable i of the append loop
    nret,          \* value returned by add_to_notion (0: none)
    requests,      \* history: requests of this invocation, in order
    store,         \* the document store: its records, in creation order
    all_titles,    \* load_processed_episodes_from_notion: local all_titles
    has_more,      \* load_processed_episodes_from_notion: local has_more
    start_cursor,  \* load_processed_episodes_from_notion: local (0: None)
    lret,          \* value returned by load_processed_episodes_from_notion
    cursors,       \* history: the cursor each query of this load carried
    lfailed,       \* history: a query of this load raised
    environ,       \* environment: the credential variables that are set
    faulty,        \* environment: the kinds of calls that may fail
    processed_episodes_cache, \* self.processed_episodes_cache (the ledger)
    entry,         \* process_episode: argument entry
    temp_file,     \* the file temp_path exists on disk
    presult,       \* process_episode: the value it returns
    cache0,        \* history: the ledger when process_episode was entered
    rmfailed,      \* history: os.remove of this process_episode call raised
    feed_i,        \* run: index in rss_feeds of the current feed
    entries,       \* run: feed.entries[:10] of the current feed
    entry_i,       \* run: index in entries of the current entry
    total,         \* run: local total
    calls,         \* history: kinds of remote calls issued since the program
                   \* started or, later, since process_episode was entered
    loaded,        \* history: the set the ledger load of this run returned
    persisted,     \* history: titles whose create request and every append
                   \* request succeeded in this run
    partial,       \* history: titles with a created record of this run for
                   \* which an append request failed, and no complete record
                   \* of this run
    prev_partial,  \* history: partial of the previous run
    run            \* number of the current run of the program

tvars == <<attempt, gemini_file, waited, summary, transcript, tret,
           files, uploads, delfailed, sleeps>>
evars == <<processing_time, environ, faulty>>
nvars == <<n_title, n_summary, n_transcript, chunks, page_id, batch_i, nret,
           requests>>
lvars == <<all_titles, has_more, start_cursor, lret, cursors, lfailed>>
pvars == <<processed_episodes_cache, entry, temp_file, presult, cache0,
           rmfailed>>
rvars == <<feed_i, entries, entry_i, total>>
hvars == <<loaded, prev_partial, run>>
vars == <<pc, tvars, evars, nvars, store, lvars, pvars, rvars, hvars, calls,
          persisted, partial>>

Issue(kind) == calls' = calls \cup {kind}

\* the kinds of calls of the program that may fail; "processing" is the
\* service reporting an uploaded file FAILED
FaultKinds ==
    {"config", "query", "feed", "download", "remove", "upload", "get_file",
     "processing", "generate", "delete_file", "create", "append"}

Fails(kind) == kind \in faulty

NoFile == [name |-> 0, state |-> "NONE"]
NoText == [len |-> 0, att |-> 0]
NoResult == [summary |-> NoText, transcript |-> NoText]

Pow2(n) == IF n = 0 THEN 1 ELSE IF n = 1 THEN 2 ELSE IF n = 2 THEN 4
           ELSE IF n = 3 THEN 8 ELSE IF n = 4 THEN 16 ELSE 32

\* ------------------------------------------------------------------------
\* transcribe_with_retry (lines 95-163)
\* ------------------------------------------------------------------------
\* state on entry of transcribe_with_retry: first iteration of the for loop
TranscribeEntry ==
    /\ attempt = 0
    /\ gemini_file = NoFile
    /\ waited = 0
    /\ summary = NoText
    /\ transcript = NoText
    /\ tret = NoResult
    /\ files = {}
    /\ uploads = 0
    /\ delfailed = {}
    /\ sleeps = <<>>

\* the name the service gives the file uploaded by the current attempt
NewName == attempt + 1

\* the states the service may report for a file polled for w time units
ReportedStates(w) ==
    (IF w >= processing_time THEN FileStates \ {"PROCESSING"} ELSE FileStates)
        \ (IF Fails("processing") THEN {} ELSE {"FAILED"})

\* genai.upload_file (line 101): returns a handle, or raises
Upload ==
    /\ pc = "t_upload"
    /\ uploads' = uploads + 1
    /\ Issue("upload")
    /\ \/ /\ \E st \in ReportedStates(0) :
                gemini_file' = [name |-> NewName, state |-> st]
          /\ files' = files \cup {NewName}
          /\ waited' = 0
          /\ pc' = "t_poll"
       \/ /\ Fails("upload")
          /\ pc' = "t_except"
          /\ UNCHANGED <<gemini_file, files, waited>>
    /\ UNCHANGED <<attempt, summary, transcript, tret, delfailed, sleeps>>

\* faulty variant: the ceiling is a minute too high
TimedOutLate(w) == w > PollTimeout + BackoffBase

\* line 107
TimedOut(w) == w > PollTimeout

\* polling loop, one iteration (lines 106-110): timeout check, sleep, get_file.
\* waited stands for time.time() - start_time, which only the loop reads: it
\* is 0 outside the loop.
Poll ==
    /\ pc = "t_poll"
    /\ gemini_file.state = "PROCESSING"
    /\ IF TimedOut(waited)
         THEN /\ pc' = "t_except"
              /\ waited' = 0
              /\ UNCHANGED <<gemini_file, calls>>
         ELSE \/ /\ \E st \in ReportedStates(waited + PollSleep) :
                       gemini_file' = [name |-> gemini_file.name, state |-> st]
                  /\ waited' = waited + PollSleep
                  /\ Issue("get_file")
                  /\ pc' = "t_poll"
              \/ /\ Fails("get_file")
                  /\ pc' = "t_except"
                  /\ waited' = 0
                  /\ Issue("get_file")
                  /\ UNCHANGED gemini_file
    /\ UNCHANGED <<attempt, summary, transcript, tret, files, uploads,
                   delfailed, sleeps>>

\* faulty variant: the state FAILED is not looked at
CheckStateIgnoresFailed ==
    /\ pc = "t_poll"
    /\ gemini_file.state # "PROCESSING"
    /\ pc' = "t_summary"
    /\ waited' = 0
    /\ UNCHANGED <<attempt, gemini_file, summary, transcript, tret, files,
                   uploads, delfailed, sleeps, calls>>

\* loop exit and the FAILED check (lines 106, 112-113)
CheckState ==
    /\ pc = "t_poll"
    /\ gemini_file.state # "PROCESSING"
    /\ pc' = IF gemini_file.state = "FAILED" THEN "t_except" ELSE "t_summary"
    /\ waited' = 0
    /\ UNCHANGED <<attempt, gemini_file, summary, transcript, tret, files,
                   uploads, delfailed, sleeps, calls>>

\* model.generate_content with the summary prompt (lines 121-122)
GenerateSummary ==
    /\ pc = "t_summary"
    /\ Issue("generate")
    /\ \/ /\ \E n \in SummaryLens : summary' = [len |-> n, att |-> attempt + 1]
          /\ pc' = "t_transcript"
       \/ /\ Fails("generate")
          /\ pc' = "t_except"
          /\ UNCHANGED summary
    /\ UNCHANGED <<attempt, gemini_file, waited, transcript, tret, files,
                   uploads, delfailed, sleeps>>

\* model.generate_content with the transcript prompt (lines 135-136)
GenerateTranscript ==
    /\ pc = "t_transcript"
    /\ Issue("generate")
    /\ \/ /\ \E n \in TranscriptLens :
                transcript' = [len |-> n, att |-> attempt + 1]
          /\ pc' = "t_delete"
       \/ /\ Fails("generate")
          /\ pc' = "t_except"
          /\ UNCHANGED transcript
    /\ UNCHANGED <<attempt, gemini_file, waited, summary, tret, files,
                   uploads, delfailed, sleeps>>

\* faulty variant: the handle is never deleted
DeleteFileSkipped(f) == UNCHANGED <<files, delfailed, calls>>

\* genai.delete_file inside try/except-pass (lines 142-145, 155-158):
\* the file is removed, or the call raises and the error is swallowed
DeleteFile(f) ==
    /\ Issue("delete_file")
    /\ \/ /\ files' = files \ {f.name}
          /\ UNCHANGED delfailed
       \/ /\ Fails("delete_file")
          /\ delfailed' = delfailed \cup {f.name}
          /\ UNCHANGED files

\* delete after success, then return (lines 142-150)
DeleteAndReturn ==
    /\ pc = "t_delete"
    /\ DeleteFile(gemini_file)
    /\ tret' = [summary |-> summary, transcript |-> transcript]
    /\ pc' = "t_return"
    /\ UNCHANGED <<attempt, gemini_file, waited, summary, transcript,
                   uploads, sleeps>>

\* except branch: cleanup of the handle if one was obtained (lines 152-158)
ExceptCleanup ==
    /\ pc = "t_except"
    /\ IF gemini_file # NoFile
         THEN DeleteFile(gemini_file)
         ELSE UNCHANGED <<files, delfailed, calls>>
    /\ pc' = "t_retry"
    /\ UNCHANGED <<attempt, gemini_file, waited, summary, transcript, tret,
                   uploads, sleeps>>

\* faulty variant: one attempt too many
IsLastAttemptOffByOne(a) == ~(a < max_retries)

IsLastAttempt(a) == ~(a < max_retries - 1)

\* faulty variant: the delay grows by 60 per attempt
BackoffDelayLinear(a) == BackoffBase * (a + 1)

\* line 161
BackoffDelay(a) == BackoffBase * Pow2(a)

\* lines 160-163 and the next iteration of the for loop (lines 97-98).
\* A summary left by the failed attempt is dead: line 122 assigns it again
\* before line 148 reads it; the model drops it at the top of the iteration.
RetryOrRaise ==
    /\ pc = "t_retry"
    /\ IF IsLastAttempt(attempt)
         THEN /\ pc' = "t_raise"
              /\ UNCHANGED <<attempt, gemini_file, summary, sleeps>>
         ELSE /\ sleeps' = Append(sleeps, BackoffDelay(attempt))
              /\ attempt' = attempt + 1
              /\ gemini_file' = NoFile
              /\ summary' = NoText
              /\ pc' = "t_upload"
    /\ UNCHANGED <<waited, transcript, tret, files, uploads, delfailed,
                   calls>>

TranscribeStep ==
    \/ Upload
    \/ Poll
    \/ CheckState
    \/ GenerateSummary
    \/ GenerateTranscript
    \/ DeleteAndReturn
    \/ ExceptCleanup
    \/ RetryOrRaise

\* ------------------------------------------------------------------------
\* add_to_notion (lines 165-261)
\* ------------------------------------------------------------------------
Min(a, b) == IF a < b THEN a ELSE b

\* Python range(start, stop, step) for step > 0: its length and its items
RangeLen(start, stop, step) ==
    IF start < stop THEN (stop - start - 1) \div step + 1 ELSE 0

RangeSeq(start, stop, step) ==
    [k \in 1..RangeLen(start, stop, step) |-> start + (k - 1) * step]

\* faulty variant: a slice one unit short
TextSliceShort(len, a, b) == [lo |-> Min(a, len), hi |-> Min(b - 1, len)]

\* Python text[a:b] of a text of len units, 0 <= a <= b: the units at
\* positions a .. b-1 that exist
TextSlice(len, a, b) == [lo |-> Min(a, len), hi |-> Min(b, len)]

\* Python list[a:b], 0 <= a <= b
ListSlice(list, a, b) == SubSeq(list, Min(a, Len(list)) + 1, Min(b, Len(list)))

\* Python list[a:], 0 <= a
ListFrom(list, a) == SubSeq(list, Min(a, Len(list)) + 1, Len(list))

\* faulty variant: the marker is added to the first 2000 units
TrimSummaryKeepsLimit(len) ==
    IF len > SummaryLimit THEN [units |-> SummaryLimit, marker |-> MarkerLen]
    ELSE [units |-> len, marker |-> 0]

\* lines 176-178: what is sent as Summary: units of the summary, then a marker
TrimSummary(len) ==
    IF len > SummaryLimit THEN [units |-> SummaryKeep, marker |-> MarkerLen]
    ELSE [units |-> len, marker |-> 0]

Paragraph(slice) == [type |-> "paragraph", lo |-> slice.lo, hi |-> slice.hi]
Heading == [type |-> "heading_1", lo |-> 0, hi |-> 0]
Divider == [type |-> "divider", lo |-> 0, hi |-> 0]

\* lines 180-189: one paragraph block per 2000-unit slice of the transcript
ChunkStarts(len) == RangeSeq(0, len, ChunkSize)

Chunks(len) ==
    LET starts == ChunkStarts(len)
    IN  [k \in 1..Len(starts) |->
            Paragraph(TextSlice(len, starts[k], starts[k] + ChunkSize))]

\* faulty variant: 100 segments beside the header and the divider
InitialBlocksHundred(cs) == <<Heading, Divider>> \o ListSlice(cs, 0, BatchSize)

\* lines 198-210
InitialBlocks(cs) == <<Heading, Divider>> \o ListSlice(cs, 0, FirstSegments)

\* faulty variant: the append phase starts one segment late
RemainingOffByOne(cs) == ListFrom(cs, FirstSegments + 1)

\* line 237
Remaining(cs) == ListFrom(cs, FirstSegments)

\* line 243
Batch(cs, i) == ListSlice(Remaining(cs), i, i + BatchSize)

NoArgs ==
    /\ n_title = ""
    /\ n_summary = 0
    /\ n_transcript = 0

NotionEntry ==
    /\ chunks = <<>>
    /\ page_id = 0
    /\ batch_i = 0
    /\ nret = 0
    /\ requests = <<>>

Request(kind, page, sum, blocks, ok) ==
    [kind |-> kind, page |-> page, summary |-> sum, blocks |-> blocks,
     ok |-> ok]

\* lines 176-234: trim, chunk, build the initial blocks, POST /v1/pages.
\* Parsing the date (lines 171-174) never fails the call and is left out.
NotionCreate ==
    /\ pc = "n_create"
    /\ chunks' = Chunks(n_transcript)
    /\ LET blocks == InitialBlocks(chunks')
           sum == TrimSummary(n_summary)
       IN  \/ /\ requests' = Append(requests,
                        Request("create", 0, sum, blocks, TRUE))
              /\ persisted' = IF Len(Remaining(chunks')) > 0 THEN persisted
                              ELSE persisted \cup {n_title}
              /\ partial' = IF Len(Remaining(chunks')) > 0 THEN partial
                            ELSE partial \ {n_title}
              /\ store' = Append(store, [wellformed |-> TRUE,
                                         episode |-> n_title,
                                         blocks |-> Len(blocks)])
              /\ page_id' = Len(store) + 1
              /\ pc' = IF Len(Remaining(chunks')) > 0 THEN "n_append"
                       ELSE "n_return"
              /\ nret' = IF Len(Remaining(chunks')) > 0 THEN 0
                         ELSE Len(store) + 1
           \/ /\ Fails("create")
              /\ requests' = Append(requests,
                        Request("create", 0, sum, blocks, FALSE))
              /\ pc' = "n_raise"
              /\ UNCHANGED <<store, page_id, nret, persisted, partial>>
    /\ Issue("create")
    /\ UNCHANGED <<n_title, n_summary, n_transcript, batch_i>>

\* faulty variant: a failed append is skipped and the loop goes on
NotionAppendContinues ==
    /\ pc = "n_append"
    /\ LET batch == Batch(chunks, batch_i)
           last == ~(batch_i + BatchSize < Len(Remaining(chunks)))
       IN  /\ \E ok \in {TRUE} \cup {~Fails("append")} :
                 /\ requests' = Append(requests,
                        Request("append", page_id, TrimSummary(0), batch, ok))
                 /\ store' = IF ok
                      THEN [store EXCEPT ![page_id].blocks = @ + Len(batch)]
                      ELSE store
           /\ batch_i' = batch_i + BatchSize
           /\ pc' = IF last THEN "n_return" ELSE "n_append"
           /\ nret' = IF last THEN page_id ELSE 0
           /\ UNCHANGED <<persisted, partial>>
    /\ Issue("append")
    /\ UNCHANGED <<n_title, n_summary, n_transcript, chunks, page_id>>

\* lines 242-252 and 256-257: one iteration of the append loop; after the
\* last one the page URL is returned
NotionAppend ==
    /\ pc = "n_append"
    /\ LET batch == Batch(chunks, batch_i)
       IN  \/ /\ requests' = Append(requests,
                        Request("append", page_id, TrimSummary(0), batch, TRUE))
              /\ store' = [store EXCEPT ![page_id].blocks = @ + Len(batch)]
              /\ batch_i' = batch_i + BatchSize
              /\ pc' = IF batch_i + BatchSize < Len(Remaining(chunks))
                       THEN "n_append" ELSE "n_return"
              /\ nret' = IF batch_i + BatchSize < Len(Remaining(chunks))
                         THEN 0 ELSE page_id
              /\ persisted' = IF batch_i + BatchSize < Len(Remaining(chunks))
                              THEN persisted ELSE persisted \cup {n_title}
              /\ partial' = IF batch_i + BatchSize < Len(Remaining(chunks))
                            THEN partial ELSE partial \ {n_title}
           \/ /\ Fails("append")
              /\ requests' = Append(requests,
                        Request("append", page_id, TrimSummary(0), batch, FALSE))
              /\ pc' = "n_raise"
              /\ partial' = partial \cup {n_title}
              /\ UNCHANGED <<store, batch_i, nret, persisted>>
    /\ Issue("append")
    /\ UNCHANGED <<n_title, n_summary, n_transcript, chunks, page_id>>

NotionStep ==
    \/ NotionCreate
    \/ NotionAppend

\* ------------------------------------------------------------------------
\* load_processed_episodes_from_notion (lines 52-93)
\* ------------------------------------------------------------------------
\* records the store returns per query
PageSize == 2

\* the store's answer to a query carrying cursor c (0: no cursor): the next
\* PageSize records, whether more follow, and the cursor to continue with
QueryResponse(c) ==
    [results |-> SubSeq(store, c + 1, Min(c + PageSize, Len(store))),
     has_more |-> c + PageSize < Len(store),
     next_cursor |-> IF c + PageSize < Len(store) THEN c + PageSize ELSE 0]

\* faulty variant: a malformed record ends the reading of its page
TitlesOfUntilMalformed(results) ==
    {results[k].episode :
        k \in {j \in 1..Len(results) : \A i \in 1..j : results[i].wellformed}}

\* lines 76-83: the Episode values of the records that have one
TitlesOf(results) ==
    {results[k].episode : k \in {j \in 1..Len(results) : results[j].wellformed}}

\* faulty variant: the except branch returns what was accumulated
LoadFailureKeeps(acc) == acc

\* line 93: what the except branch returns
LoadFailureResult(acc) == {}

LoadEntry ==
    /\ all_titles = {}
    /\ has_more = TRUE
    /\ start_cursor = 0
    /\ lret = {}
    /\ cursors = <<>>
    /\ lfailed = FALSE

\* one iteration of the while loop (lines 67-86), then lines 88-89 when the
\* loop ends; a failed request or a malformed response ends in lines 91-93
LoadQuery ==
    /\ pc = "l_query"
    /\ cursors' = Append(cursors, start_cursor)
    /\ Issue("query")
    /\ \/ LET data == QueryResponse(start_cursor)
              acc == all_titles \cup TitlesOf(data.results)
          IN  /\ all_titles' = acc
              /\ has_more' = data.has_more
              /\ start_cursor' = data.next_cursor
              /\ lret' = IF data.has_more THEN lret ELSE acc
              /\ pc' = IF data.has_more THEN "l_query" ELSE "l_return"
              /\ UNCHANGED lfailed
       \/ /\ Fails("query")
          /\ lfailed' = TRUE
          /\ lret' = LoadFailureResult(all_titles)
          /\ pc' = "l_return"
          /\ UNCHANGED <<all_titles, has_more, start_cursor>>

LoadStep == LoadQuery

\* ------------------------------------------------------------------------
\* __init__, load_env_configs, force_clear_api_storage (lines 17-50)
\* ------------------------------------------------------------------------
Credentials == {"GEMINI_API_KEY", "NOTION_API_KEY", "NOTION_DATABASE_ID"}

\* config.json: the configured feeds, in order
rss_feeds == <<"feed1", "feed2">>

\* files a previous run may have left at the transcription service
MaxOrphans == 1

\* faulty variant: one credential is enough
AllConfiguredAny(env) == \E c \in Credentials : c \in env

\* line 28
AllConfigured(env) == \A c \in Credentials : c \in env

\* load_env_configs (lines 22-35): a missing credential raises, and so may
\* reading config.json; the program ends
LoadEnvConfigs ==
    /\ pc = "c_config"
    /\ \/ /\ AllConfigured(environ)
          /\ pc' = "c_clear"
       \/ /\ ~AllConfigured(environ) \/ Fails("config")
          /\ pc' = "crashed"
    /\ UNCHANGED <<tvars, evars, nvars, store, lvars, pvars, rvars, hvars,
                   calls, persisted, partial>>

\* force_clear_api_storage (lines 37-50): list the remote files and delete
\* each, every failure swallowed
ForceClear ==
    /\ pc = "c_clear"
    /\ \E n \in 0..MaxOrphans :
          calls' = calls \cup {"list_files"}
                     \cup (IF n > 0 THEN {"delete_file"} ELSE {})
    /\ pc' = "l_query"
    /\ UNCHANGED <<tvars, evars, nvars, store, lvars, pvars, rvars, hvars,
                   persisted, partial>>

\* line 20, then run up to the first feed (lines 323-331)
StartRun ==
    /\ pc = "l_return"
    /\ processed_episodes_cache' = lret
    /\ loaded' = lret
    /\ all_titles' = {}
    /\ has_more' = TRUE
    /\ start_cursor' = 0
    /\ lret' = {}
    /\ cursors' = <<>>
    /\ lfailed' = FALSE
    /\ total' = 0
    /\ feed_i' = 1
    /\ pc' = "r_feed"
    /\ UNCHANGED <<tvars, evars, nvars, store, entry, temp_file, presult,
                   cache0, rmfailed, entries, entry_i, prev_partial, run,
                   calls, persisted, partial>>

\* ------------------------------------------------------------------------
\* process_episode (lines 263-321)
\* ------------------------------------------------------------------------
NoEntry == [title |-> "", enclosure |-> FALSE, audio_link |-> FALSE]

\* line 265
EntryTitle(e) == IF e.title = "" THEN "Unknown" ELSE e.title

\* lines 277-284: the enclosure if there is one, else a link of an audio type
AudioUrl(e) ==
    IF e.enclosure THEN "enclosure"
    ELSE IF e.audio_link THEN "link" ELSE "None"

\* faulty variant: the ledger is asked for the raw title, not the defaulted one
AlreadyProcessedRawTitle(e, cache) == e.title \in cache

\* line 267
AlreadyProcessed(e, cache) == EntryTitle(e) \in cache

\* lines 265-288: the ledger check, then the audio URL
ProcessStart ==
    /\ pc = "p_start"
    /\ cache0' = processed_episodes_cache
    /\ calls' = {}
    /\ presult' = FALSE
    /\ rmfailed' = FALSE
    /\ pc' = IF AlreadyProcessed(entry, processed_episodes_cache)
               THEN "p_return"
             ELSE IF AudioUrl(entry) = "None" THEN "p_finally"
             ELSE "p_download"
    /\ UNCHANGED <<tvars, evars, nvars, store, lvars, rvars, hvars,
                   processed_episodes_cache, entry, temp_file, persisted,
                   partial>>

\* lines 292-301: the request fails (no file yet), the stream fails after
\* the file was opened, or the file is complete and transcription starts
Download ==
    /\ pc = "p_download"
    /\ Issue("download")
    /\ \/ /\ Fails("download")
          /\ pc' = "p_finally"
          /\ UNCHANGED temp_file
       \/ /\ Fails("download")
          /\ temp_file' = TRUE
          /\ pc' = "p_finally"
       \/ /\ temp_file' = TRUE
          /\ pc' = "t_upload"
    /\ UNCHANGED <<tvars, evars, nvars, store, lvars, rvars, hvars,
                   processed_episodes_cache, entry, presult, cache0,
                   rmfailed, persisted, partial>>

\* the frame of transcribe_with_retry is gone once it returned or raised
TranscribeExit ==
    /\ attempt' = 0
    /\ gemini_file' = NoFile
    /\ waited' = 0
    /\ summary' = NoText
    /\ transcript' = NoText
    /\ tret' = NoResult
    /\ files' = {}
    /\ uploads' = 0
    /\ delfailed' = {}
    /\ sleeps' = <<>>

\* lines 301-304: the result goes to add_to_notion
CallNotion ==
    /\ pc = "t_return"
    /\ n_title' = EntryTitle(entry)
    /\ n_summary' = tret.summary.len
    /\ n_transcript' = tret.transcript.len
    /\ TranscribeExit
    /\ pc' = "n_create"
    /\ UNCHANGED <<evars, chunks, page_id, batch_i, nret, requests, store,
                   lvars, pvars, rvars, hvars, calls, persisted, partial>>

\* lines 312-314: transcription raised after its last attempt
TranscribeFailed ==
    /\ pc = "t_raise"
    /\ TranscribeExit
    /\ pc' = "p_finally"
    /\ UNCHANGED <<evars, nvars, store, lvars, pvars, rvars, hvars, calls,
                   persisted, partial>>

\* the frame of add_to_notion is gone once it returned or raised
NotionExit ==
    /\ n_title' = ""
    /\ n_summary' = 0
    /\ n_transcript' = 0
    /\ chunks' = <<>>
    /\ page_id' = 0
    /\ batch_i' = 0
    /\ nret' = 0
    /\ requests' = <<>>

\* faulty variant: the ledger is told of a title that was not persisted
AddToCacheUnknown(cache, title) == cache \cup {title, "Unknown"}

\* faulty variant: the ledger is not told of the persisted title
AddToCacheForgets(cache, title) == cache

\* line 307
AddToCache(cache, title) == cache \cup {title}

\* lines 306-310: add_to_notion returned
Persisted ==
    /\ pc = "n_return"
    /\ processed_episodes_cache' =
           AddToCache(processed_episodes_cache, EntryTitle(entry))
    /\ presult' = TRUE
    /\ NotionExit
    /\ pc' = "p_finally"
    /\ UNCHANGED <<tvars, evars, store, lvars, rvars, hvars, entry,
                   temp_file, cache0, rmfailed, calls, persisted, partial>>

\* lines 312-314: add_to_notion raised
PersistFailed ==
    /\ pc = "n_raise"
    /\ NotionExit
    /\ pc' = "p_finally"
    /\ UNCHANGED <<tvars, evars, store, lvars, pvars, rvars, hvars, calls,
                   persisted, partial>>

\* faulty variant: the finally block removes nothing
NeedsRemovalNever(exists) == FALSE

\* line 317
NeedsRemoval(exists) == exists

\* lines 316-321: os.remove inside try/except-pass: the file is removed, or
\* the call raises and the error is swallowed
Finally ==
    /\ pc = "p_finally"
    /\ IF NeedsRemoval(temp_file)
         THEN \/ /\ temp_file' = FALSE
                 /\ UNCHANGED rmfailed
              \/ /\ Fails("remove")
                 /\ rmfailed' = TRUE
                 /\ UNCHANGED temp_file
         ELSE UNCHANGED <<temp_file, rmfailed>>
    /\ pc' = "p_return"
    /\ UNCHANGED <<tvars, evars, nvars, store, lvars, rvars, hvars,
                   processed_episodes_cache, entry, presult, cache0, calls,
                   persisted, partial>>

\* ------------------------------------------------------------------------
\* run (lines 323-350)
\* ------------------------------------------------------------------------
MaxEntries == 10

Entry(t, enc, link) == [title |-> t, enclosure |-> enc, audio_link |-> link]

\* a feed of more entries than run takes: the same title twice, entries
\* without a title and without audio, and a last entry beyond the first ten
LongFeed ==
    [k \in 1..(MaxEntries + 1) |->
        IF k <= 2 THEN Entry("a", TRUE, FALSE)
        ELSE IF k <= MaxEntries THEN Entry("", FALSE, FALSE)
        ELSE Entry("b", FALSE, TRUE)]

\* what fetching a feed may yield
FeedChoices ==
    { <<>>,
      <<Entry("a", TRUE, FALSE), Entry("b", FALSE, TRUE)>>,
      <<Entry("", FALSE, FALSE), Entry("a", TRUE, FALSE)>>,
      LongFeed }

\* faulty variant: one entry more than the first ten
RecentEleven(es) == ListSlice(es, 0, MaxEntries + 1)

\* line 342
Recent(es) == ListSlice(es, 0, MaxEntries)

\* faulty variant: a failure ends the loop over the feeds
NextFeedAborts(i) ==
    /\ feed_i' = i
    /\ pc' = "done"

\* the feed after feed i, or the final report (line 350)
NextFeed(i) ==
    IF i < Len(rss_feeds)
      THEN /\ feed_i' = i + 1
           /\ pc' = "r_feed"
      ELSE /\ feed_i' = i
           /\ pc' = "done"

\* lines 331-343: fetch and parse the feed; it raises, has no entries, or the
\* first of its entries goes to process_episode
FetchFeed ==
    /\ pc = "r_feed"
    /\ \/ /\ Fails("feed")
          /\ NextFeed(feed_i)
          /\ UNCHANGED <<entries, entry_i, entry>>
       \/ \E es \in FeedChoices :
             IF Len(es) = 0
               THEN /\ NextFeed(feed_i)
                    /\ UNCHANGED <<entries, entry_i, entry>>
               ELSE /\ entries' = Recent(es)
                    /\ entry_i' = 1
                    /\ entry' = Recent(es)[1]
                    /\ pc' = "p_start"
                    /\ UNCHANGED feed_i
    /\ UNCHANGED <<tvars, evars, nvars, store, lvars, hvars, total,
                   processed_episodes_cache, temp_file, presult, cache0,
                   rmfailed, calls, persisted, partial>>

\* lines 343-345
Count(t, ok) == IF ok THEN t + 1 ELSE t

\* lines 342-345: process_episode returned; count it, go to the next entry or
\* the next feed
AfterEpisode ==
    /\ pc = "p_return"
    /\ total' = Count(total, presult)
    /\ IF entry_i < Len(entries)
         THEN /\ entry_i' = entry_i + 1
              /\ entry' = entries[entry_i + 1]
              /\ pc' = "p_start"
              /\ UNCHANGED <<feed_i, entries>>
         ELSE /\ NextFeed(feed_i)
              /\ entries' = <<>>
              /\ entry_i' = 0
              /\ entry' = NoEntry
    /\ presult' = FALSE
    /\ UNCHANGED <<tvars, evars, nvars, store, lvars, hvars,
                   processed_episodes_cache, temp_file, cache0, rmfailed,
                   calls, persisted, partial>>

\* ------------------------------------------------------------------------
\* The job is started again after a run ended (line 354)
\* ------------------------------------------------------------------------
MaxRuns == 2

\* the program specification lets at most one kind of call fail in one
\* behaviour; the specifications of the single operations let every kind fail
FaultScenarios == {{}} \cup {{k} : k \in FaultKinds}

ProgramStart ==
    /\ TranscribeEntry
    /\ NoArgs
    /\ NotionEntry
    /\ LoadEntry
    /\ processed_episodes_cache = {}
    /\ entry = NoEntry
    /\ temp_file = FALSE
    /\ presult = FALSE
    /\ cache0 = {}
    /\ rmfailed = FALSE
    /\ feed_i = 0
    /\ entries = <<>>
    /\ entry_i = 0
    /\ total = 0
    /\ calls = {}
    /\ loaded = {}
    /\ persisted = {}
    /\ partial = {}

NextRun ==
    /\ pc = "done"
    /\ run < MaxRuns
    /\ run' = run + 1
    /\ prev_partial' = partial
    /\ pc' = "c_config"
    /\ processed_episodes_cache' = {}
    /\ temp_file' = FALSE
    /\ cache0' = {}
    /\ rmfailed' = FALSE
    /\ feed_i' = 0
    /\ total' = 0
    /\ calls' = {}
    /\ loaded' = {}
    /\ persisted' = {}
    /\ partial' = {}
    /\ UNCHANGED <<tvars, evars, nvars, store, lvars, entry, presult,
                   entries, entry_i>>

\* ------------------------------------------------------------------------
\* Specification of the program: two runs of the job on one document store
\* ------------------------------------------------------------------------
Init ==
    /\ pc = "c_config"
    /\ ProgramStart
    /\ processing_time = QuickDone
    /\ environ \in SUBSET Credentials
    /\ faulty \in FaultScenarios
    /\ store = <<>>
    /\ prev_partial = {}
    /\ run = 1

Next ==
    \/ LoadEnvConfigs
    \/ ForceClear
    \/ LoadStep /\ UNCHANGED <<tvars, evars, nvars, store, pvars, rvars,
                               hvars, persisted, partial>>
    \/ StartRun
    \/ FetchFeed
    \/ ProcessStart
    \/ Download
    \/ TranscribeStep /\ UNCHANGED <<evars, nvars, store, lvars, pvars,
                                     rvars, hvars, persisted, partial>>
    \/ CallNotion
    \/ TranscribeFailed
    \/ NotionStep /\ UNCHANGED <<tvars, evars, lvars, pvars, rvars, hvars>>
    \/ Persisted
    \/ PersistFailed
    \/ Finally
    \/ AfterEpisode
    \/ NextRun

Spec == Init /\ [][Next]_vars

\* the program is one thread that runs whenever it can take a step: no call
\* blocks forever (the download has a timeout, the polling loop a ceiling)
SpecFair == Spec /\ WF_vars(Next)

\* ------------------------------------------------------------------------
\* Specification of one invocation of process_episode
\* ------------------------------------------------------------------------
Titles == {"a", "b"}

EpisodeEntries ==
    {Entry(t, enc, link) : t \in Titles \cup {""}, enc \in BOOLEAN,
                           link \in BOOLEAN}

InitE ==
    /\ pc = "p_start"
    /\ TranscribeEntry
    /\ NoArgs
    /\ NotionEntry
    /\ LoadEntry
    /\ processed_episodes_cache \in SUBSET (Titles \cup {"Unknown"})
    /\ entry \in EpisodeEntries
    /\ temp_file = FALSE
    /\ presult = FALSE
    /\ cache0 = {}
    /\ rmfailed = FALSE
    /\ feed_i = 1
    /\ entries = <<entry>>
    /\ entry_i = 1
    /\ total = 0
    /\ calls = {}
    /\ loaded = processed_episodes_cache
    /\ persisted = {}
    /\ partial = {}
    /\ processing_time = QuickDone
    /\ environ = Credentials
    /\ faulty = FaultKinds
    /\ store = <<>>
    /\ prev_partial = {}
    /\ run = 1

NextE ==
    \/ ProcessStart
    \/ Download
    \/ TranscribeStep /\ UNCHANGED <<evars, nvars, store, lvars, pvars,
                                     rvars, hvars, persisted, partial>>
    \/ CallNotion
    \/ TranscribeFailed
    \/ NotionStep /\ UNCHANGED <<tvars, evars, lvars, pvars, rvars, hvars>>
    \/ Persisted
    \/ PersistFailed
    \/ Finally

SpecE == InitE /\ [][NextE]_vars

\* ------------------------------------------------------------------------
\* Specification of one invocation of transcribe_with_retry
\* ------------------------------------------------------------------------
InitT ==
    /\ pc = "t_upload"
    /\ ProgramStart
    /\ processing_time \in {QuickDone, NeverDone}
    /\ environ = Credentials
    /\ faulty = FaultKinds
    /\ store = <<>>
    /\ prev_partial = {}
    /\ run = 1

NextT == TranscribeStep /\ UNCHANGED <<evars, nvars, store, lvars, pvars,
                                       rvars, hvars, persisted, partial>>

SpecT == InitT /\ [][NextT]_vars

\* ------------------------------------------------------------------------
\* Specification of one invocation of add_to_notion
\* ------------------------------------------------------------------------
\* transcript lengths at and around the chunk, create and batch boundaries
NotionTranscriptLens ==
    {0, 1, 1999, 2000, 2001, 4000, 4001, 194001, 196000, 196001, 198000,
     394001, 396000, 396001, 398000, 500000, 596000, 596001}
NotionSummaryLens == {0, 1, 1997, 1999, 2000, 2001, 2500}

InitN ==
    /\ pc = "n_create"
    /\ TranscribeEntry
    /\ n_title = "a"
    /\ n_summary \in NotionSummaryLens
    /\ n_transcript \in NotionTranscriptLens
    /\ NotionEntry
    /\ LoadEntry
    /\ processed_episodes_cache = {}
    /\ entry = NoEntry
    /\ temp_file = FALSE
    /\ presult = FALSE
    /\ cache0 = {}
    /\ rmfailed = FALSE
    /\ feed_i = 0
    /\ entries = <<>>
    /\ entry_i = 0
    /\ total = 0
    /\ calls = {}
    /\ loaded = {}
    /\ persisted = {}
    /\ partial = {}
    /\ processing_time = QuickDone
    /\ environ = Credentials
    /\ faulty = FaultKinds
    /\ store = <<>>
    /\ prev_partial = {}
    /\ run = 1

NextN == NotionStep /\ UNCHANGED <<tvars, evars, lvars, pvars, rvars, hvars>>

SpecN == InitN /\ [][NextN]_vars

\* ------------------------------------------------------------------------
\* Specification of one invocation of load_processed_episodes_from_notion
\* ------------------------------------------------------------------------
MaxStoreLen == 4

\* a record of the store: its Episode property holds a title, or is absent
\* or malformed
StoreRecords ==
    {[wellformed |-> TRUE, episode |-> t, blocks |-> 2] : t \in Titles}
        \cup {[wellformed |-> FALSE, episode |-> "", blocks |-> 2]}

StoresOfLen(n) == [1..n -> StoreRecords]

InitL ==
    /\ pc = "l_query"
    /\ ProgramStart
    /\ processing_time = QuickDone
    /\ environ = Credentials
    /\ faulty = FaultKinds
    /\ \E n \in 0..MaxStoreLen : store \in StoresOfLen(n)
    /\ prev_partial = {}
    /\ run = 1

NextL == LoadStep /\ UNCHANGED <<tvars, evars, nvars, store, pvars, rvars,
                                 hvars, persisted, partial>>

SpecL == InitL /\ [][NextL]_vars

\* ========================================================================
\* Claims
\* ========================================================================

\* C1: a call of process_episode on an entry whose title is already in the
\* ledger returns false at once: no download, no transcription-service call,
\* no document-store call, no temporary file, and the ledger is unchanged.
C1_SkipIssuesNoCall ==
    (pc # "p_start" /\ EntryTitle(entry) \in cache0) =>
        /\ pc = "p_return"
        /\ presult = FALSE
        /\ calls = {}
        /\ processed_episodes_cache = cache0
        /\ store = <<>>
        /\ temp_file = FALSE

C1_Witness ==
    /\ pc = "p_return"
    /\ EntryTitle(entry) \in cache0
    /\ AudioUrl(entry) # "None"

\* C2: every title in the ledger was returned by the ledger load of this run
\* or belongs to an episode whose create request and every append request
\* succeeded in this run; process_episode returns true only then, having
\* added exactly that title, and returns false with the ledger unchanged
\* otherwise.
C2_LedgerSound ==
    /\ processed_episodes_cache \subseteq (loaded \cup persisted)
    /\ pc = "p_return" =>
          IF presult
            THEN /\ EntryTitle(entry) \in persisted
                 /\ EntryTitle(entry) \notin cache0
                 /\ processed_episodes_cache = cache0 \cup {EntryTitle(entry)}
            ELSE processed_episodes_cache = cache0

C2_Witness ==
    /\ pc = "p_return"
    /\ presult
    /\ loaded # {}
    /\ ~(processed_episodes_cache \subseteq loaded)

\* C3: with 5 attempts, a return after k failed attempts (k in 0..4) comes
\* with exactly k+1 uploads and the texts generated by attempt k+1; a raise
\* comes after exactly 5 uploads; there is never a 6th upload.
C3_UploadsPerOutcome ==
    /\ uploads <= 5
    /\ pc = "t_return" =>
          /\ Len(sleeps) \in 0..4
          /\ uploads = Len(sleeps) + 1
          /\ tret.summary.att = uploads
          /\ tret.transcript.att = uploads
    /\ pc = "t_raise" =>
          /\ uploads = 5
          /\ Len(sleeps) = 4

C3_Witness ==
    /\ pc = "t_return"
    /\ Len(sleeps) = 4
    /\ uploads = 5

\* C4 as stated: when an attempt is about to upload, and when the invocation
\* returns or raises, no handle of this invocation exists at the service.
C4_NoHandleLeft ==
    pc \in {"t_upload", "t_return", "t_raise"} => files = {}

\* C4 as amended: at those points a handle of this invocation exists at the
\* service only if the delete_file call issued for it raised.
C4_HandleLeftOnlyIfDeleteRaised ==
    pc \in {"t_upload", "t_return", "t_raise"} => files \subseteq delfailed

C4_Witness ==
    /\ pc = "t_raise"
    /\ gemini_file # NoFile
    /\ delfailed = {1}
    /\ files = {1}

\* C5: no create request carries more than 100 blocks, no append request
\* carries more than 100 blocks or fewer than 1.
C5_RequestSizes ==
    \A k \in 1..Len(requests) :
        /\ Len(requests[k].blocks) <= 100
        /\ requests[k].kind = "append" => Len(requests[k].blocks) >= 1

C5_Witness ==
    /\ Len(requests) = 3
    /\ Len(requests[1].blocks) = 100
    /\ Len(requests[2].blocks) = 100
    /\ Len(requests[3].blocks) = 1

\* the segments of a sequence of blocks tile the units 0 .. len-1 in order
Tiles(segs, len) ==
    /\ Len(segs) = 0 => len = 0
    /\ Len(segs) > 0 => segs[1].lo = 0 /\ segs[Len(segs)].hi = len
    /\ \A k \in 1..Len(segs) :
          segs[k].type = "paragraph" /\ segs[k].lo < segs[k].hi
    /\ \A k \in 1..(Len(segs) - 1) : segs[k].hi = segs[k + 1].lo

RECURSIVE SentSegments(_)
\* the blocks sent after the header and the divider, in the order sent
SentSegments(reqs) ==
    IF Len(reqs) = 0 THEN <<>>
    ELSE IF Len(reqs) = 1 THEN SubSeq(reqs[1].blocks, 3, Len(reqs[1].blocks))
    ELSE SentSegments(SubSeq(reqs, 1, Len(reqs) - 1)) \o reqs[Len(reqs)].blocks

\* C6: when add_to_notion returns, the create request (after header and
\* divider) and the append requests, in the order issued, carried exactly
\* the segments of the transcript, in order, each once.
C6_SentSegmentsTileTranscript ==
    pc = "n_return" =>
        /\ Len(requests) >= 1
        /\ requests[1].kind = "create"
        /\ requests[1].blocks[1] = Heading
        /\ requests[1].blocks[2] = Divider
        /\ \A k \in 2..Len(requests) : requests[k].kind = "append"
        /\ \A k \in 1..Len(requests) : requests[k].ok
        /\ Tiles(SentSegments(requests), n_transcript)

C6_Witness ==
    /\ pc = "n_return"
    /\ Len(requests) = 3
    /\ n_transcript = 396001

\* C7: the chunks of a transcript of L units are ceil(L / 2000) slices, none
\* when L = 0, each of 1 to 2000 units, all but the last of 2000 units, and
\* in order they hold every unit of the transcript once.
C7_ChunksRoundTrip ==
    pc # "n_create" =>
        /\ Len(chunks) = (n_transcript + 1999) \div 2000
        /\ n_transcript = 0 => Len(chunks) = 0
        /\ \A k \in 1..Len(chunks) :
              /\ chunks[k].hi - chunks[k].lo >= 1
              /\ chunks[k].hi - chunks[k].lo <= 2000
              /\ k < Len(chunks) => chunks[k].hi - chunks[k].lo = 2000
        /\ Tiles(chunks, n_transcript)

C7_Witness ==
    /\ pc # "n_create"
    /\ n_transcript = 2001
    /\ Len(chunks) = 2
    /\ chunks[2].hi - chunks[2].lo = 1

\* C8 as stated: when a query raised, the load returns what it accumulated
\* from the pages read before.
C8_FailureReturnsAccumulated ==
    (pc = "l_return" /\ lfailed) => lret = all_titles

\* C8 as amended: when a query raised, the load does not raise and returns
\* the empty set, whatever it accumulated from the pages read before.
C8_FailureReturnsEmpty ==
    /\ pc \in {"l_query", "l_return"}
    /\ (pc = "l_return" /\ lfailed) => lret = {}
    /\ (pc = "l_return" /\ ~lfailed) => lret = all_titles

C8_Witness ==
    /\ pc = "l_return"
    /\ lfailed
    /\ all_titles # {}

\* C9 as stated: a title whose record was created and left incomplete by
\* the previous run is not in the ledger loaded by this run, and an entry of
\* that title is downloaded again.
C9_PartialEpisodeRetried ==
    run > 1 =>
        /\ prev_partial \cap loaded = {}
        /\ (/\ pc = "p_return"
            /\ EntryTitle(entry) \in prev_partial
            /\ EntryTitle(entry) \notin persisted
            /\ AudioUrl(entry) # "None") => "download" \in calls

\* C10 as stated: when process_episode returns, the temporary file does not
\* exist.
C10_NoTempFileLeft ==
    pc = "p_return" => ~temp_file

\* C10 as amended: when process_episode returns, the temporary file exists
\* only if the os.remove call issued for it raised.
C10_TempFileLeftOnlyIfRemoveRaised ==
    pc = "p_return" => (temp_file => rmfailed)

C10_Witness ==
    /\ pc = "p_return"
    /\ "download" \in calls
    /\ "upload" \in calls
    /\ ~temp_file
    /\ ~rmfailed

\* C11: whatever feed and episode failures occur, run visits the feeds in
\* the configured order, ends only after the last one, never ends by a
\* failure once it started, and eventually reaches its final report.
C11_RunReachesReport ==
    /\ [][(pc' = "done" /\ pc # "done") =>
             (feed_i = Len(rss_feeds) /\ feed_i' = feed_i)]_vars
    /\ [][feed_i' # feed_i =>
             \/ feed_i' = feed_i + 1 /\ pc' = "r_feed"
             \/ pc = "done"]_vars
    /\ [](pc = "crashed" => feed_i = 0)
    /\ (pc = "r_feed" /\ feed_i = 1) ~> (pc = "done")

C11_Witness ==
    /\ pc = "done"
    /\ feed_i = Len(rss_feeds)
    /\ faulty = {"download"}
    /\ calls = {"download"}
    /\ total = 0

\* C12: with a required credential missing the program ends in
\* load_env_configs: no remote file is listed or deleted, the ledger is not
\* queried, no feed is fetched and no episode is processed.
C12_MissingCredentialStopsAtStartup ==
    ~(\A c \in Credentials : c \in environ) =>
        /\ pc \in {"c_config", "crashed"}
        /\ calls = {}
        /\ cursors = <<>>
        /\ feed_i = 0
        /\ entry = NoEntry
        /\ uploads = 0
        /\ store = <<>>

C12_Witness ==
    /\ pc = "crashed"
    /\ Cardinality(environ) = 2
    /\ faulty = {}

\* C13: the summary of the create request is at most 2000 units long: a
\* summary of at most 2000 units is sent whole and without marker, a longer
\* one as its first 1997 units and a marker of 3 units.
C13_SummaryWithinLimit ==
    \A k \in 1..Len(requests) :
        requests[k].kind = "create" =>
            LET sent == requests[k].summary
            IN  /\ sent.units + sent.marker <= 2000
                /\ n_summary <= 2000 =>
                       (sent.units = n_summary /\ sent.marker = 0)
                /\ n_summary > 2000 =>
                       (sent.units = 1997 /\ sent.marker = 3)

C13_Witness ==
    /\ Len(requests) >= 1
    /\ requests[1].kind = "create"
    /\ n_summary = 2500
    /\ requests[1].summary.units + requests[1].summary.marker = 2000

\* C14: run hands process_episode the first min(10, n) of the n entries of
\* a feed, in feed order; total grows by one for each call that returned
\* true and by nothing else, so that the reported total is the number of
\* such calls; a feed without entries causes no call and no change of total
\* and run goes on.
C14_FirstTenCounted ==
    /\ [][(pc = "r_feed" /\ pc' = "p_start") =>
             \E es \in FeedChoices :
                 /\ Len(es) > 0
                 /\ Len(entries') = (IF Len(es) < 10 THEN Len(es) ELSE 10)
                 /\ \A k \in 1..Len(entries') : entries'[k] = es[k]
                 /\ entry_i' = 1
                 /\ entry' = es[1]
                 /\ total' = total]_vars
    /\ [][(pc = "r_feed" /\ pc' # "p_start") =>
             /\ pc' \in {"r_feed", "done"}
             /\ total' = total
             /\ calls' = calls
             /\ store' = store]_vars
    /\ [][pc = "p_return" =>
             /\ total' = total + (IF presult THEN 1 ELSE 0)
             /\ IF entry_i < Len(entries)
                  THEN /\ pc' = "p_start"
                       /\ entries' = entries
                       /\ entry_i' = entry_i + 1
                       /\ entry' = entries[entry_i + 1]
                  ELSE pc' \in {"r_feed", "done"}]_vars
    /\ [][pc \notin {"r_feed", "p_return", "l_return", "done"} =>
             /\ total' = total
             /\ entries' = entries
             /\ entry_i' = entry_i
             /\ entry' = entry]_vars
    /\ [](pc = "done" => total = Cardinality(persisted))

C14_Witness ==
    /\ pc = "p_return"
    /\ Len(entries) = 10
    /\ entry_i = 10
    /\ total = 1
    /\ persisted = {"a"}

\* C15: the backoff sleeps of an invocation are 60, 120, 240, 480 in this
\* order, one after each failed attempt but the fifth: before the upload of
\* the attempt of index i exactly the first i of them were slept; a return
\* comes with no sleep after the successful attempt, the raise with no sleep
\* after the fifth failed attempt.
C15_BackoffSchedule ==
    /\ Len(sleeps) = attempt
    /\ attempt <= 4
    /\ \A k \in 1..Len(sleeps) : sleeps[k] = <<60, 120, 240, 480>>[k]
    /\ pc = "t_raise" => attempt = 4
    /\ pc = "t_return" => uploads = attempt + 1

C15_Witness ==
    /\ pc = "t_raise"
    /\ sleeps = <<60, 120, 240, 480>>

\* C16 as stated: an attempt whose polling wait exceeded 600 time units is
\* aborted and goes on to no generation request.
C16_LongWaitAborts ==
    [][(pc = "t_poll" /\ waited > 600) => pc' = "t_except"]_vars

\* C16 as amended: an attempt whose file is still PROCESSING after a polling
\* wait of more than 600 time units is aborted without a further poll and
\* without a generation request; the wait of an attempt never exceeds 605
\* time units, that is 121 polls.
C16_StillProcessingAborts ==
    /\ [][(pc = "t_poll" /\ waited > 600
             /\ gemini_file.state = "PROCESSING") =>
               (pc' = "t_except" /\ calls' = calls)]_vars
    /\ [](waited <= 605 /\ waited % 5 = 0)
    /\ [](pc \in {"t_summary", "t_transcript"} =>
             gemini_file.state # "PROCESSING")

C16_Witness ==
    /\ pc = "t_poll"
    /\ waited = 605
    /\ gemini_file.state = "PROCESSING"
    /\ processing_time = NeverDone

RECURSIVE BlocksWritten(_)
\* the number of blocks carried by the requests that succeeded
BlocksWritten(reqs) ==
    IF Len(reqs) = 0 THEN 0
    ELSE BlocksWritten(SubSeq(reqs, 1, Len(reqs) - 1))
           + (IF reqs[Len(reqs)].ok THEN Len(reqs[Len(reqs)].blocks) ELSE 0)

\* C17: a failed request of add_to_notion is its last request and the call
\* raises without returning a URL: after a failed create no append is issued
\* and the store holds no record; after a failed append no further append
\* is issued and the record holds the blocks of the create request and of
\* the appends before it.
C17_FailureStopsRequests ==
    /\ \A k \in 1..Len(requests) :
          ~requests[k].ok => (k = Len(requests) /\ pc = "n_raise")
    /\ pc = "n_raise" =>
          /\ Len(requests) >= 1
          /\ ~requests[Len(requests)].ok
          /\ nret = 0
    /\ (Len(requests) >= 1 /\ ~requests[1].ok) =>
          (Len(requests) = 1 /\ store = <<>>)
    /\ (Len(requests) >= 1 /\ requests[1].ok) =>
          /\ Len(store) = 1
          /\ store[1].episode = n_title
          /\ store[1].blocks = BlocksWritten(requests)
    /\ \A k \in 2..Len(requests) : requests[k].kind = "append"

C17_Witness ==
    /\ pc = "n_raise"
    /\ Len(requests) = 3
    /\ requests[2].ok
    /\ ~requests[3].ok
    /\ Len(Remaining(chunks)) > 200
    /\ store[1].blocks = 200

\* C18: a load without a failed request returns the Episode values of all
\* well-formed records of the store, those after a malformed record
\* included; its first query carries no cursor, each later query the
\* next_cursor of the response before it, and the query whose response has
\* has_more false is the last, after as many queries as the store has pages.
C18_LoadReturnsAllTitles ==
    (pc = "l_return" /\ ~lfailed) =>
        /\ lret = {store[k].episode :
                      k \in {j \in 1..Len(store) : store[j].wellformed}}
        /\ Len(cursors) =
               (IF Len(store) = 0 THEN 1
                ELSE (Len(store) + PageSize - 1) \div PageSize)
        /\ cursors[1] = 0
        /\ \A k \in 1..(Len(cursors) - 1) :
              /\ QueryResponse(cursors[k]).has_more
              /\ cursors[k + 1] = QueryResponse(cursors[k]).next_cursor
        /\ ~QueryResponse(cursors[Len(cursors)]).has_more

C18_Witness ==
    /\ pc = "l_return"
    /\ ~lfailed
    /\ Len(store) = 4
    /\ ~store[1].wellformed
    /\ ~store[3].wellformed
    /\ Len(cursors) = 2
    /\ lret = {"a", "b"}

\* C19: in every attempt the calls come in the order upload, polls, summary
\* generation, transcript generation, delete: a generation is issued only
\* for the handle uploaded in the same attempt, last seen neither
\* PROCESSING nor FAILED, and before any delete of it; the transcript is
\* requested only after the summary of the same attempt was generated; a
\* delete is issued only for a handle for which none was issued before.
C19_CallOrder ==
    /\ [](pc \in {"t_summary", "t_transcript", "t_delete"} =>
             /\ gemini_file.state \notin {"PROCESSING", "FAILED"}
             /\ gemini_file.name = attempt + 1
             /\ uploads = attempt + 1)
    /\ [](pc \in {"t_transcript", "t_delete"} => summary.att = attempt + 1)
    /\ [](pc = "t_delete" => transcript.att = attempt + 1)
    /\ []((pc \in {"t_summary", "t_transcript", "t_delete"}
              \/ (pc = "t_except" /\ gemini_file # NoFile)) =>
             /\ gemini_file.name \in files
             /\ gemini_file.name \notin delfailed)
    /\ [][pc' = "t_poll" => pc \in {"t_upload", "t_poll"}]_vars
    /\ [][pc' = "t_summary" => pc = "t_poll"]_vars
    /\ [][pc' = "t_transcript" => pc = "t_summary"]_vars
    /\ [][pc' = "t_delete" => pc = "t_transcript"]_vars
    /\ [][(files' # files \/ delfailed' # delfailed) =>
             pc \in {"t_upload", "t_delete", "t_except"}]_vars

C19_Witness ==
    /\ pc = "t_delete"
    /\ attempt = 1
    /\ gemini_file.name = 2
    /\ delfailed = {1}
    /\ files = {1, 2}

\* C20: within a run, an entry whose title was fully persisted earlier in
\* the run causes no download, no upload and no create request, and no
\* title is fully persisted twice.
C20_NoRepeatAfterSuccess ==
    /\ [](pc # "n_return" => persisted \subseteq processed_episodes_cache)
    /\ [](pc \in {"p_download", "t_upload", "t_poll", "t_summary",
                   "t_transcript", "t_delete", "t_except", "t_retry",
                   "t_return", "t_raise", "n_create", "n_append", "n_raise"}
             => EntryTitle(entry) \notin persisted)
    /\ []((pc = "p_return" /\ ~presult /\ EntryTitle(entry) \in persisted)
             => calls = {})
    /\ [][(pc' = "n_return" /\ pc # "n_return") =>
             n_title \notin persisted]_vars

C20_Witness ==
    /\ pc = "p_return"
    /\ ~presult
    /\ AudioUrl(entry) # "None"
    /\ EntryTitle(entry) \in persisted
    /\ EntryTitle(entry) \notin loaded
    /\ calls = {}

====
